---- MODULE Spec2Model ----
(***************************************************************************)
(* Model of milli's prefix-word-pairs persistence primitives               *)
(* (update/prefix_word_pairs/mod.rs) and of the Initial ranking criterion  *)
(* (search/criteria/initial.rs).                                           *)
(***************************************************************************)
EXTENDS Integers, Sequences, FiniteSets, TLC

VARIABLES
    db,        \* the posting store: key -> value bytes
    hist,      \* per key, what was written under it so far
    last,      \* the last store call: its arguments and its result
    nops,      \* number of store calls made
    builder,   \* PrefixWordPairsProximityDocids: its configuration fields
    lastSet,   \* the last builder setter call and its argument
    derivs,    \* the derivations execute invoked, in order, with their arguments
    execRes,   \* what execute returned: "none" while it has not been called
    derived,   \* the two derived databases the builder's index holds
    stage,     \* per Initial stage: answer, exhaustive_number_hits, distinct
    given,     \* per Initial stage: the arguments Initial::new received
    rets,      \* per Initial stage: what each call to next returned, in order
    log,       \* per Initial stage: the resolver and distinct invocations
    wdcache    \* per Initial stage: the word-distance cache of its pipeline

storeVars == <<db, hist, last, nops>>
builderVars == <<builder, lastSet, derivs, execRes, derived>>
stageVars == <<stage, given, rets, log, wdcache>>
vars == <<db, hist, last, nops, builder, lastSet, derivs, execRes, derived,
         stage, given, rets, log, wdcache>>

(***************************************************************************)
(* Bounds of the model.                                                    *)
(***************************************************************************)
MaxDoc == 3
MaxOps == 3

Docs == 1..MaxDoc

(***************************************************************************)
(* Keys are byte strings; the store orders them byte-lexicographically.    *)
(* <<1>> is a strict prefix of <<1, 1>>.                                   *)
(***************************************************************************)
Keys == {<<1>>, <<1, 1>>, <<2>>}

Range(s) == {s[i] : i \in 1..Len(s)}

The(S) == CHOOSE x \in S : TRUE

Min2(a, b) == IF a <= b THEN a ELSE b

IsPrefix(p, k) ==
    /\ Len(p) <= Len(k)
    /\ \A i \in 1..Len(p) : p[i] = k[i]

LexLess(a, b) ==
    \/ Len(a) < Len(b) /\ IsPrefix(a, b)
    \/ \E i \in 1..Min2(Len(a), Len(b)) :
          /\ a[i] < b[i]
          /\ \A j \in 1..(i - 1) : a[j] = b[j]

MinKey(S) == CHOOSE k \in S : \A j \in S : j = k \/ LexLess(k, j)
MaxKey(S) == CHOOSE k \in S : \A j \in S : j = k \/ LexLess(j, k)

(***************************************************************************)
(* Posting values: the serialized form of a bitmap is the ascending list   *)
(* of its document ids; bytes that are not such a list do not decode.      *)
(***************************************************************************)
RECURSIVE Encode(_)
Encode(S) ==
    IF S = {} THEN <<>>
    ELSE LET m == CHOOSE x \in S : \A y \in S : x <= y
         IN <<m>> \o Encode(S \ {m})

Decode(b) ==
    IF \A i \in 1..(Len(b) - 1) : b[i] < b[i + 1]
    THEN [ok |-> TRUE, set |-> Range(b)]
    ELSE [ok |-> FALSE, set |-> {}]

CorruptBytes == <<2, 1>>

\* the bytes the calls are given: bitmaps of one document id or of two
\* consecutive ones, and bytes that are no bitmap
Bitmaps == {Encode({d}) : d \in Docs} \cup {Encode({d, d + 1}) : d \in 1..(MaxDoc - 1)}
Values == Bitmaps \cup {CorruptBytes}

\* decode-union-reencode of the old and the new value
merge_cbo_roaring_bitmaps(old_val, new_value) ==
    LET a == Decode(old_val)
        b == Decode(new_value)
    IN IF a.ok /\ b.ok
       THEN [ok |-> TRUE, val |-> Encode(a.set \cup b.set)]
       ELSE [ok |-> FALSE, val |-> <<>>]

(***************************************************************************)
(* The posting store: a finite map from keys to value bytes.               *)
(***************************************************************************)
is_empty(d) == DOMAIN d = {}

put(d, k, v) == [x \in (DOMAIN d) \cup {k} |-> IF x = k THEN v ELSE d[x]]

\* the entry the cursor stands on gets the new bytes
put_current(d, k, v) == [x \in (DOMAIN d) \cup {k} |-> IF x = k THEN v ELSE d[x]]

\* first entry of the scan over the keys that start with p: {} when none
prefix_iter_first(d, p) ==
    LET S == {k \in DOMAIN d : IsPrefix(p, k)}
    IN IF S = {} THEN {} ELSE {MinKey(S)}

\* MDB_APPEND: the key has to sort after the last key of the database
append(d, k, v) ==
    IF is_empty(d) \/ LexLess(MaxKey(DOMAIN d), k)
    THEN [db |-> put(d, k, v), ok |-> TRUE]
    ELSE [db |-> d, ok |-> FALSE]

RECURSIVE Entries(_)
Entries(d) ==
    IF DOMAIN d = {} THEN <<>>
    ELSE LET k == MinKey(DOMAIN d)
         IN <<[k |-> k, v |-> d[k]]>>
              \o Entries([x \in (DOMAIN d) \ {k} |-> d[x]])

(***************************************************************************)
(* insert_into_database                                                    *)
(***************************************************************************)
\* the merge path writing the incoming bytes back instead of the merged ones
insert_into_database_new_value(d, new_key, new_value) ==
    LET first == prefix_iter_first(d, new_key)
    IN IF first = {new_key}
       THEN LET m == merge_cbo_roaring_bitmaps(d[new_key], new_value)
            IN IF m.ok
               THEN [db |-> put_current(d, new_key, new_value), res |-> "Ok"]
               ELSE [db |-> d, res |-> "IndexingMergingKeys"]
       ELSE [db |-> put(d, new_key, new_value), res |-> "Ok"]

\* the put of the fallback arm taken on every call
insert_into_database_put(d, new_key, new_value) ==
    [db |-> put(d, new_key, new_value), res |-> "Ok"]

\* a failed merge falling back to the incoming bytes
insert_into_database_unwrap_or(d, new_key, new_value) ==
    LET first == prefix_iter_first(d, new_key)
    IN IF first = {new_key}
       THEN LET m == merge_cbo_roaring_bitmaps(d[new_key], new_value)
            IN IF m.ok
               THEN [db |-> put_current(d, new_key, m.val), res |-> "Ok"]
               ELSE [db |-> put_current(d, new_key, new_value),
                     res |-> "IndexingMergingKeys"]
       ELSE [db |-> put(d, new_key, new_value), res |-> "Ok"]

\* the match arm without its guard: the first entry of the scan, whatever
\* its key, is merged into the bytes written under new_key
insert_into_database_any_first(d, new_key, new_value) ==
    LET first == prefix_iter_first(d, new_key)
    IN IF first # {}
       THEN LET m == merge_cbo_roaring_bitmaps(d[The(first)], new_value)
            IN IF m.ok
               THEN [db |-> put_current(d, new_key, m.val), res |-> "Ok"]
               ELSE [db |-> d, res |-> "IndexingMergingKeys"]
       ELSE [db |-> put(d, new_key, new_value), res |-> "Ok"]

insert_into_database(d, new_key, new_value) ==
    LET first == prefix_iter_first(d, new_key)
    IN IF first = {new_key}
       THEN LET m == merge_cbo_roaring_bitmaps(d[new_key], new_value)
            IN IF m.ok
               THEN [db |-> put_current(d, new_key, m.val), res |-> "Ok"]
               ELSE [db |-> d, res |-> "IndexingMergingKeys"]
       ELSE [db |-> put(d, new_key, new_value), res |-> "Ok"]

(***************************************************************************)
(* write_into_lmdb_database_without_merging                                *)
(***************************************************************************)
\* the append loop as an `if let`: only the first entry is appended
append_first(d, stream) ==
    IF stream = <<>> THEN [db |-> d, res |-> "Ok"]
    ELSE LET a == append(d, stream[1].k, stream[1].v)
         IN IF a.ok THEN [db |-> a.db, res |-> "Ok"]
            ELSE [db |-> d, res |-> "KeyExist"]

RECURSIVE append_all(_, _)
append_all(d, stream) ==
    IF stream = <<>> THEN [db |-> d, res |-> "Ok"]
    ELSE LET a == append(d, stream[1].k, stream[1].v)
         IN IF a.ok THEN append_all(a.db, Tail(stream))
            ELSE [db |-> d, res |-> "KeyExist"]

\* the slow path appending like the fast one
RECURSIVE put_all_append(_, _)
put_all_append(d, stream) ==
    IF stream = <<>> THEN [db |-> d, res |-> "Ok"]
    ELSE LET a == append(d, stream[1].k, stream[1].v)
         IN IF a.ok THEN put_all_append(a.db, Tail(stream))
            ELSE [db |-> d, res |-> "KeyExist"]

\* the slow path merging each entry into the database
RECURSIVE put_all_merge(_, _)
put_all_merge(d, stream) ==
    IF stream = <<>> THEN [db |-> d, res |-> "Ok"]
    ELSE LET r == insert_into_database(d, stream[1].k, stream[1].v)
         IN IF r.res = "Ok" THEN put_all_merge(r.db, Tail(stream))
            ELSE [db |-> r.db, res |-> r.res]

RECURSIVE put_all(_, _)
put_all(d, stream) ==
    IF stream = <<>> THEN [db |-> d, res |-> "Ok"]
    ELSE put_all(put(d, stream[1].k, stream[1].v), Tail(stream))

write_into_lmdb_database_without_merging(d, stream) ==
    IF is_empty(d) THEN append_all(d, stream) ELSE put_all(d, stream)

(***************************************************************************)
(* Streams handed to the bulk load come out of a grenad writer: their keys *)
(* are strictly increasing.                                                *)
(***************************************************************************)
StreamVals == {Encode({1}), Encode({MaxDoc})}

Streams ==
    {s \in UNION {[1..n -> [k : Keys, v : StreamVals]] : n \in 0..Cardinality(Keys)} :
        \A i \in 1..(Len(s) - 1) : LexLess(s[i].k, s[i + 1].k)}

StreamKeys(s) == {s[i].k : i \in 1..Len(s)}

(***************************************************************************)
(* History kept per key: the union of the document-id sets stored under    *)
(* it, whether bytes that are no bitmap were stored under it, whether a    *)
(* bulk load wrote it (and whether it then hit an existing entry), and how *)
(* many inserts reached it.                                                *)
(***************************************************************************)
\* the stream keys a bulk load has written when it returns r
Written(stream, r) ==
    {stream[i].k : i \in {j \in 1..Len(stream) :
                             /\ stream[j].k \in DOMAIN r.db
                             /\ r.db[stream[j].k] = stream[j].v}}

NoHist == [docs |-> {}, corrupt |-> FALSE, bulk |-> FALSE, collided |-> FALSE, nIns |-> 0]

NoCall == [op |-> "none", key |-> <<>>, val |-> <<>>, old |-> {}, stream |-> <<>>,
           wasEmpty |-> TRUE, res |-> "Ok"]

StoreNew ==
    /\ db = <<>>
    /\ hist = [k \in Keys |-> NoHist]
    /\ last = NoCall
    /\ nops = 0

InsertCall(k, v) ==
    /\ nops < MaxOps
    /\ LET r == insert_into_database(db, k, v)
           wrote == r.res = "Ok"
       IN /\ db' = r.db
          /\ last' = [NoCall EXCEPT !.op = "insert", !.key = k, !.val = v,
                         !.old = IF k \in DOMAIN db THEN {db[k]} ELSE {},
                         !.wasEmpty = is_empty(db), !.res = r.res]
          /\ hist' = [hist EXCEPT ![k] =
                         [@ EXCEPT !.docs = IF wrote THEN @ \cup Decode(v).set ELSE @,
                                   !.corrupt = @ \/ (wrote /\ ~Decode(v).ok),
                                   !.nIns = @ + 1]]
    /\ nops' = nops + 1
    /\ UNCHANGED <<builderVars, stageVars>>

BulkCall(stream) ==
    /\ nops < MaxOps
    /\ LET r == write_into_lmdb_database_without_merging(db, stream)
       IN /\ db' = r.db
          /\ last' = [NoCall EXCEPT !.op = "bulk", !.stream = stream,
                         !.wasEmpty = is_empty(db), !.res = r.res]
          /\ hist' = [k \in Keys |->
                         IF k \in Written(stream, r)
                         THEN [hist[k] EXCEPT
                                  !.docs = @ \cup Decode(r.db[k]).set,
                                  !.corrupt = @ \/ ~Decode(r.db[k]).ok,
                                  !.bulk = TRUE,
                                  !.collided = @ \/ k \in DOMAIN db]
                         ELSE hist[k]]
    /\ nops' = nops + 1
    /\ UNCHANGED <<builderVars, stageVars>>

NextStore ==
    \/ \E k \in Keys, v \in Values : InsertCall(k, v)
    \/ \E s \in Streams : BulkCall(s)

(***************************************************************************)
(* PrefixWordPairsProximityDocids: the builder's configuration.            *)
(***************************************************************************)
U8Max == 255
DefaultMaxProximity == 4
DefaultMaxPrefixLength == 2
ProximityBound == 7
MaxPrefixLen == 3

Max2(a, b) == IF a >= b THEN a ELSE b

\* the chunk compression settings a builder is created with
Compressions == [chunk_compression_type : {"None", "Zstd"},
                 chunk_compression_level : {{}, {3}}]

DefaultCompression == {[chunk_compression_type |-> "None", chunk_compression_level |-> {}]}

new(chunk_compression_type, chunk_compression_level) ==
    [max_proximity |-> DefaultMaxProximity,
     max_prefix_length |-> DefaultMaxPrefixLength,
     chunk_compression_type |-> chunk_compression_type,
     chunk_compression_level |-> chunk_compression_level]

\* self.max_proximity = value.max(7)
max_proximity(b, value) == [b EXCEPT !.max_proximity = Max2(value, ProximityBound)]

\* self.max_prefix_length = value
max_prefix_length(b, value) == [b EXCEPT !.max_prefix_length = value]

\* the databases of the index that execute hands to the two derivations
WordPrefixDb == "word_prefix_pair_proximity_docids"
PrefixWordDb == "prefix_word_pair_proximity_docids"
DerivedDatabases == {WordPrefixDb, PrefixWordDb}

\* what a derived database holds when execute starts: nothing, or a
\* posting of an earlier batch
DerivedContents == {<<>>, put(<<>>, <<1>>, Encode({1}))}
EmptyDerived == {[n \in DerivedDatabases |-> <<>>]}
DerivedStarts == {[n \in DerivedDatabases |-> c] : c \in DerivedContents}

\* what one run of a derivation does: it writes its database through one
\* of the two primitives, or writes nothing, and it may fail afterwards
DerivationWrites ==
    {[op |-> "none", k |-> <<>>, v |-> <<>>, stream |-> <<>>]}
    \cup {[op |-> "insert", k |-> <<1>>, v |-> v, stream |-> <<>>] :
             v \in {Encode({MaxDoc}), CorruptBytes}}
    \cup {[op |-> "bulk", k |-> <<>>, v |-> <<>>,
           stream |-> <<[k |-> <<1>>, v |-> Encode({MaxDoc})],
                        [k |-> <<2>>, v |-> Encode({1})]>>]}

DerivationRuns == [write : DerivationWrites, fails : BOOLEAN]

\* a derivation on its database: the error of a primitive is the
\* derivation's error, and what was written before an error stays written
\* in the caller's transaction
run_derivation(d, run) ==
    LET w == run.write
        r == CASE w.op = "insert" -> insert_into_database(d, w.k, w.v)
               [] w.op = "bulk" -> write_into_lmdb_database_without_merging(d, w.stream)
               [] OTHER -> [db |-> d, res |-> "Ok"]
    IN [db |-> r.db, ok |-> r.res = "Ok" /\ ~run.fails]

index_word_prefix_database(d, run) == run_derivation(d, run)

index_prefix_word_database(d, run) == run_derivation(d, run)

\* one invocation of a derivation: the database and the settings it was
\* handed and whether it returned Ok
Derivation(fn, database, b, ok) ==
    [fn |-> fn,
     database |-> database,
     max_proximity |-> b.max_proximity,
     max_prefix_length |-> b.max_prefix_length,
     chunk_compression_type |-> b.chunk_compression_type,
     chunk_compression_level |-> b.chunk_compression_level,
     ok |-> ok]

\* execute going on to the second derivation after the first one failed
execute_no_fail_fast(b, dbs, wp, pw) ==
    LET r1 == index_word_prefix_database(dbs[WordPrefixDb], wp)
        first == Derivation("index_word_prefix_database", WordPrefixDb, b, r1.ok)
        d1 == [dbs EXCEPT ![WordPrefixDb] = r1.db]
        r2 == index_prefix_word_database(dbs[PrefixWordDb], pw)
        second == Derivation("index_prefix_word_database", PrefixWordDb, b, r2.ok)
        d2 == [d1 EXCEPT ![PrefixWordDb] = r2.db]
    IN IF ~r2.ok
       THEN [calls |-> <<first, second>>, res |-> "Err(index_prefix_word_database)",
             derived |-> d2]
       ELSE [calls |-> <<first, second>>, res |-> "Ok", derived |-> d2]

\* execute handing the second derivation no compression level
execute_level_none(b, dbs, wp, pw) ==
    LET r1 == index_word_prefix_database(dbs[WordPrefixDb], wp)
        first == Derivation("index_word_prefix_database", WordPrefixDb, b, r1.ok)
        d1 == [dbs EXCEPT ![WordPrefixDb] = r1.db]
        r2 == index_prefix_word_database(dbs[PrefixWordDb], pw)
        second == Derivation("index_prefix_word_database", PrefixWordDb,
                             [b EXCEPT !.chunk_compression_level = {}], r2.ok)
        d2 == [d1 EXCEPT ![PrefixWordDb] = r2.db]
    IN IF ~r1.ok
       THEN [calls |-> <<first>>, res |-> "Err(index_word_prefix_database)",
             derived |-> d1]
       ELSE IF ~r2.ok
       THEN [calls |-> <<first, second>>, res |-> "Err(index_prefix_word_database)",
             derived |-> d2]
       ELSE [calls |-> <<first, second>>, res |-> "Ok", derived |-> d2]

\* execute: index_word_prefix_database(..)?; index_prefix_word_database(..)?;
\* Ok(()).  dbs are the derived databases of the index, wp and pw what the
\* two derivations do when they run.
execute(b, dbs, wp, pw) ==
    LET r1 == index_word_prefix_database(dbs[WordPrefixDb], wp)
        first == Derivation("index_word_prefix_database", WordPrefixDb, b, r1.ok)
        d1 == [dbs EXCEPT ![WordPrefixDb] = r1.db]
        r2 == index_prefix_word_database(dbs[PrefixWordDb], pw)
        second == Derivation("index_prefix_word_database", PrefixWordDb, b, r2.ok)
        d2 == [d1 EXCEPT ![PrefixWordDb] = r2.db]
    IN IF ~r1.ok
       THEN [calls |-> <<first>>, res |-> "Err(index_word_prefix_database)",
             derived |-> d1]
       ELSE IF ~r2.ok
       THEN [calls |-> <<first, second>>, res |-> "Err(index_prefix_word_database)",
             derived |-> d2]
       ELSE [calls |-> <<first, second>>, res |-> "Ok", derived |-> d2]

NoSet == [op |-> "none", value |-> 0]

BuilderNew(compressions, deriveds) ==
    /\ builder \in {new(c.chunk_compression_type, c.chunk_compression_level) :
                       c \in compressions}
    /\ lastSet = NoSet
    /\ derivs = <<>>
    /\ execRes = "none"
    /\ derived \in deriveds

\* the setters borrow the builder, execute consumes it
SetMaxProximity(value) ==
    /\ execRes = "none"
    /\ builder' = max_proximity(builder, value)
    /\ lastSet' = [op |-> "max_proximity", value |-> value]
    /\ UNCHANGED <<derivs, execRes, derived, storeVars, stageVars>>

SetMaxPrefixLength(value) ==
    /\ execRes = "none"
    /\ builder' = max_prefix_length(builder, value)
    /\ lastSet' = [op |-> "max_prefix_length", value |-> value]
    /\ UNCHANGED <<derivs, execRes, derived, storeVars, stageVars>>

\* execute writes the two derived databases of its index; db is the
\* database of the primitives' direct calls and is not one of them
Execute(wp, pw) ==
    /\ execRes = "none"
    /\ LET r == execute(builder, derived, wp, pw)
       IN /\ derivs' = r.calls
          /\ execRes' = r.res
          /\ derived' = r.derived
    /\ UNCHANGED <<builder, lastSet, storeVars, stageVars>>

NextBuilder ==
    \/ \E value \in 0..U8Max : SetMaxProximity(value)
    \/ \E value \in 0..MaxPrefixLen : SetMaxPrefixLength(value)
    \/ \E wp \in DerivationRuns, pw \in DerivationRuns : Execute(wp, pw)

(***************************************************************************)
(* The collaborators of the Initial criterion.  An optional value is a set *)
(* with at most one element: {} is None and {x} is Some(x).                *)
(***************************************************************************)
MaxNext == 3

Stages == {1, 2}

\* query trees (Operation)
Query(w) == [op |-> "Query", word |-> w, kids |-> <<>>]
And(l, r) == [op |-> "And", word |-> 0, kids |-> <<l, r>>]
Or(l, r) == [op |-> "Or", word |-> 0, kids |-> <<l, r>>]

Trees == {Query(1), And(Query(1), Query(2)), Or(Query(1), Query(2))}

\* Context: the documents that hold a word
word_docids(w) == IF w = 1 THEN {d \in Docs : d <= 2} ELSE {d \in Docs : d >= 2}

RECURSIVE resolve(_)
resolve(t) ==
    CASE t.op = "Query" -> word_docids(t.word)
      [] t.op = "And" -> resolve(t.kids[1]) \cap resolve(t.kids[2])
      [] t.op = "Or" -> resolve(t.kids[1]) \cup resolve(t.kids[2])

RECURSIVE Words(_)
Words(t) ==
    IF t.op = "Query" THEN {t.word} ELSE Words(t.kids[1]) \cup Words(t.kids[2])

\* resolve_query_tree(ctx, query_tree, wdcache): fails when the store does
resolve_query_tree(query_tree, cache, rfail) ==
    IF rfail
    THEN [ok |-> FALSE, docs |-> {}, wdcache |-> cache]
    ELSE [ok |-> TRUE, docs |-> resolve(query_tree), wdcache |-> cache \cup Words(query_tree)]

\* the value of the distinct attribute of a document
attr(d) == (d + 1) \div 2

\* the documents a Distinct yields: the lowest id of each attribute value
RECURSIVE distinct_ids(_, _)
distinct_ids(candidates, excluded) ==
    LET left == candidates \ excluded
    IN IF left = {} THEN <<>>
       ELSE LET d == CHOOSE x \in left : \A y \in left : x <= y
            IN <<d>> \o distinct_ids(candidates,
                                     excluded \cup {x \in Docs : attr(x) = attr(d)})

\* Distinct::distinct(candidates, excluded): the items of the iterator; item
\* number dfail, when there is one, is an error
distinct(candidates, excluded, dfail) ==
    LET ys == distinct_ids(candidates, excluded)
    IN [i \in 1..Len(ys) |->
          IF i = dfail THEN [ok |-> FALSE, id |-> 0] ELSE [ok |-> TRUE, id |-> ys[i]]]

(***************************************************************************)
(* Initial                                                                 *)
(***************************************************************************)
Filters == {{}} \cup {{S} : S \in SUBSET Docs}

Configs == [query_tree : {{}} \cup {{t} : t \in Trees},
            filtered_candidates : Filters,
            exhaustive_number_hits : BOOLEAN,
            distinct : {{}, {"Distinct"}}]

IdleConfig == [query_tree |-> {}, filtered_candidates |-> {},
               exhaustive_number_hits |-> FALSE, distinct |-> {}]

\* the constructor leaving filtered_candidates out of the answer
Initial_new_no_filter(c) ==
    [answer |-> {[query_tree |-> c.query_tree,
                  candidates |-> {},
                  filtered_candidates |-> {},
                  bucket_candidates |-> {}]},
     exhaustive_number_hits |-> c.exhaustive_number_hits,
     distinct |-> c.distinct]

\* Initial::new
Initial_new(c) ==
    [answer |-> {[query_tree |-> c.query_tree,
                  candidates |-> {},
                  filtered_candidates |-> c.filtered_candidates,
                  bucket_candidates |-> {}]},
     exhaustive_number_hits |-> c.exhaustive_number_hits,
     distinct |-> c.distinct]

ResolveCall(tree, ok) ==
    [call |-> "resolve_query_tree", tree |-> {tree}, candidates |-> {},
     excluded |-> {}, ok |-> ok, yielded |-> {}]

DistinctCall(candidates, excluded, ok, yielded) ==
    [call |-> "distinct", tree |-> {}, candidates |-> candidates,
     excluded |-> excluded, ok |-> ok, yielded |-> yielded]

RetSome(answer) == [kind |-> "Some", answer |-> {answer}, err |-> "none"]
RetNone == [kind |-> "None", answer |-> {}, err |-> "none"]
RetErr(e) == [kind |-> "Err", answer |-> {}, err |-> e]

AllOk(items) == \A i \in 1..Len(items) : items[i].ok

\* for c in distinct.distinct(..) { bucket_candidates.insert(c?) }
RECURSIVE collect(_, _)
collect(items, acc) ==
    IF items = <<>> THEN [ok |-> TRUE, set |-> acc]
    ELSE IF ~items[1].ok THEN [ok |-> FALSE, set |-> acc]
    ELSE collect(Tail(items), acc \cup {items[1].id})

\* the same loop with the failed items skipped instead of returned
RECURSIVE collect_skip_errors(_, _)
collect_skip_errors(items, acc) ==
    IF items = <<>> THEN [ok |-> TRUE, set |-> acc]
    ELSE IF ~items[1].ok THEN collect_skip_errors(Tail(items), acc)
    ELSE collect_skip_errors(Tail(items), acc \cup {items[1].id})

\* self.answer.take() without the take: the answer stays in the stage
take_keep(st) == st

\* self.answer.take(): the stage afterwards
take(st) == [st EXCEPT !.answer = {}]

\* the test with the exhaustiveness flag left out
must_resolve_any_tree(st, answer) == answer.query_tree # {}

\* self.exhaustive_number_hits && answer.query_tree.is_some()
must_resolve(st, answer) == st.exhaustive_number_hits /\ answer.query_tree # {}

\* the filters left unapplied
apply_filters_none(answer, candidates) == candidates

\* candidates &= filtered_candidates, when there are some
apply_filters(answer, candidates) ==
    IF answer.filtered_candidates # {}
    THEN candidates \cap The(answer.filtered_candidates)
    ELSE candidates

\* the distinct loop swallowing the errors of the iterator
bucket_candidates_lossy(st, candidates, dfail) ==
    IF st.distinct # {}
    THEN LET items == distinct(candidates, {}, dfail)
             b == collect_skip_errors(items, {})
         IN [ok |-> b.ok, set |-> b.set,
             calls |-> <<DistinctCall(candidates, {}, AllOk(items), b.set)>>]
    ELSE [ok |-> TRUE, set |-> candidates, calls |-> <<>>]

\* the distinct left out: the candidates are the bucket candidates
bucket_candidates_no_distinct(st, candidates, dfail) ==
    [ok |-> TRUE, set |-> candidates, calls |-> <<>>]

\* the distinct iterator read for its first item only
bucket_candidates_first(st, candidates, dfail) ==
    IF st.distinct # {}
    THEN LET items == distinct(candidates, {}, dfail)
             b == collect(SubSeq(items, 1, Min2(1, Len(items))), {})
         IN [ok |-> b.ok, set |-> b.set,
             calls |-> <<DistinctCall(candidates, {}, AllOk(items), b.set)>>]
    ELSE [ok |-> TRUE, set |-> candidates, calls |-> <<>>]

\* let bucket_candidates = match &mut self.distinct { .. }
bucket_candidates(st, candidates, dfail) ==
    IF st.distinct # {}
    THEN LET items == distinct(candidates, {}, dfail)
             b == collect(items, {})
         IN [ok |-> b.ok, set |-> b.set,
             calls |-> <<DistinctCall(candidates, {}, AllOk(items), b.set)>>]
    ELSE [ok |-> TRUE, set |-> candidates, calls |-> <<>>]

\* next putting the answer back into the stage when it returns an error
next_retry(st, cache, rfail, dfail) ==
    IF st.answer = {}
    THEN [stage |-> st, wdcache |-> cache, ret |-> RetNone, calls |-> <<>>]
    ELSE
      LET answer == The(st.answer)
          taken == take(st)
      IN IF must_resolve(st, answer)
         THEN
           LET tree == The(answer.query_tree)
               r == resolve_query_tree(tree, cache, rfail)
               candidates == apply_filters(answer, r.docs)
               b == bucket_candidates(st, candidates, dfail)
           IN IF ~r.ok
              THEN [stage |-> st, wdcache |-> r.wdcache, ret |-> RetErr("resolve"),
                    calls |-> <<ResolveCall(tree, FALSE)>>]
              ELSE IF ~b.ok
              THEN [stage |-> st, wdcache |-> r.wdcache, ret |-> RetErr("distinct"),
                    calls |-> <<ResolveCall(tree, TRUE)>> \o b.calls]
              ELSE [stage |-> taken, wdcache |-> r.wdcache,
                    ret |-> RetSome([answer EXCEPT !.candidates = {candidates},
                                                   !.bucket_candidates = {b.set}]),
                    calls |-> <<ResolveCall(tree, TRUE)>> \o b.calls]
         ELSE [stage |-> taken, wdcache |-> cache, ret |-> RetSome(answer), calls |-> <<>>]

\* Initial::next on the stage st with the pipeline's cache: the stage and
\* the cache afterwards, the value returned, the collaborators invoked
next(st, cache, rfail, dfail) ==
    IF st.answer = {}
    THEN [stage |-> st, wdcache |-> cache, ret |-> RetNone, calls |-> <<>>]
    ELSE
      LET answer == The(st.answer)
          taken == take(st)
      IN IF must_resolve(st, answer)
         THEN
           LET tree == The(answer.query_tree)
               r == resolve_query_tree(tree, cache, rfail)
               candidates == apply_filters(answer, r.docs)
               b == bucket_candidates(st, candidates, dfail)
           IN IF ~r.ok
              THEN [stage |-> taken, wdcache |-> r.wdcache, ret |-> RetErr("resolve"),
                    calls |-> <<ResolveCall(tree, FALSE)>>]
              ELSE IF ~b.ok
              THEN [stage |-> taken, wdcache |-> r.wdcache, ret |-> RetErr("distinct"),
                    calls |-> <<ResolveCall(tree, TRUE)>> \o b.calls]
              ELSE [stage |-> taken, wdcache |-> r.wdcache,
                    ret |-> RetSome([answer EXCEPT !.candidates = {candidates},
                                                   !.bucket_candidates = {b.set}]),
                    calls |-> <<ResolveCall(tree, TRUE)>> \o b.calls]
         ELSE [stage |-> taken, wdcache |-> cache, ret |-> RetSome(answer), calls |-> <<>>]

StagesNew(cfgs) ==
    /\ given \in cfgs
    /\ stage = [s \in Stages |-> Initial_new(given[s])]
    /\ rets = [s \in Stages |-> <<>>]
    /\ log = [s \in Stages |-> <<>>]
    /\ wdcache = [s \in Stages |-> {}]

NextCall(s, rfail, dfail) ==
    /\ Len(rets[s]) < MaxNext
    /\ LET r == next(stage[s], wdcache[s], rfail, dfail)
       IN /\ stage' = [stage EXCEPT ![s] = r.stage]
          /\ wdcache' = [wdcache EXCEPT ![s] = r.wdcache]
          /\ rets' = [rets EXCEPT ![s] = Append(@, r.ret)]
          /\ log' = [log EXCEPT ![s] = @ \o r.calls]
    /\ UNCHANGED <<given, storeVars, builderVars>>

NextInitial == \E rfail \in BOOLEAN, dfail \in 0..MaxDoc : NextCall(1, rfail, dfail)

(***************************************************************************)
(* Specifications: the store primitives, the builder's setters, and one    *)
(* Initial stage under every configuration.                                *)
(***************************************************************************)
IdleStages == {[s \in Stages |-> IdleConfig]}
OneStage == {[s \in Stages |-> IF s = 1 THEN c ELSE IdleConfig] : c \in Configs}

InitStore == StoreNew /\ BuilderNew(DefaultCompression, EmptyDerived) /\ StagesNew(IdleStages)
InitBuilder == StoreNew /\ BuilderNew(Compressions, DerivedStarts) /\ StagesNew(IdleStages)
InitInitial == StoreNew /\ BuilderNew(DefaultCompression, EmptyDerived) /\ StagesNew(OneStage)

SpecStore == InitStore /\ [][NextStore]_vars
SpecBuilder == InitBuilder /\ [][NextBuilder]_vars
SpecInitial == InitInitial /\ [][NextInitial]_vars

(***************************************************************************)
(* Claims about the store primitives (SpecStore).                          *)
(***************************************************************************)

\* C1: a key that only insert_into_database calls have written, with bitmap
\* values, holds the union of all the values inserted under it, whatever the
\* order of the calls; inserting {1,2} then {2,3} leaves {1,2,3}.
C1_InsertUnion ==
    /\ \A k \in Keys :
          (hist[k].nIns > 0 /\ ~hist[k].bulk /\ ~hist[k].corrupt)
             => (k \in DOMAIN db /\ db[k] = Encode(hist[k].docs))
    /\ (last.op = "insert" /\ last.old = {<<1, 2>>} /\ last.val = <<2, 3>>)
          => db[last.key] = <<1, 2, 3>>

C1_Witness ==
    /\ last.op = "insert" /\ last.res = "Ok"
    /\ last.old = {<<1, 2>>} /\ last.val = <<2, 3>>
    /\ hist[last.key].nIns = 2 /\ ~hist[last.key].bulk
    /\ db[last.key] = <<1, 2, 3>>

\* C4 as stated: every stored bitmap is the union of all the document-id
\* sets ever written under its key, after any calls of the two primitives.
C4_NeverOverwritten ==
    \A k \in DOMAIN db : ~hist[k].corrupt => db[k] = Encode(hist[k].docs)

\* C4, amended: the stored bitmap is the union of all the document-id sets
\* ever written under its key, for every key that no bulk load wrote while
\* it was already in the destination.
C4_MergedUnlessCollided ==
    \A k \in DOMAIN db :
        (~hist[k].corrupt /\ ~hist[k].collided) => db[k] = Encode(hist[k].docs)

C4_Witness ==
    \E k \in DOMAIN db :
        /\ hist[k].bulk /\ hist[k].nIns > 0
        /\ ~hist[k].corrupt /\ ~hist[k].collided
        /\ Cardinality(hist[k].docs) >= 2
        /\ db[k] = Encode(hist[k].docs)

\* C6: a bulk load into an empty database succeeds and leaves exactly the
\* stream's entries, iterated in key order, in the stream's order.
C6_AppendKeepsStream ==
    (last.op = "bulk" /\ last.wasEmpty)
        => (last.res = "Ok" /\ Entries(db) = last.stream)

C6_Witness ==
    /\ last.op = "bulk" /\ last.wasEmpty
    /\ Len(last.stream) >= 2
    /\ Entries(db) = last.stream

\* C7: a bulk load into a non-empty database, none of whose keys the stream
\* holds, leaves the prior entries unchanged plus the stream's entries.
C7_DisjointBulkIsUnion ==
    [][(/\ last'.op = "bulk"
        /\ ~is_empty(db)
        /\ StreamKeys(last'.stream) \cap DOMAIN db = {})
          => (/\ last'.res = "Ok"
              /\ DOMAIN db' = (DOMAIN db) \cup StreamKeys(last'.stream)
              /\ \A k \in DOMAIN db : db'[k] = db[k]
              /\ \A i \in 1..Len(last'.stream) :
                    db'[last'.stream[i].k] = last'.stream[i].v)]_vars

C7_Witness ==
    /\ last.op = "bulk" /\ ~last.wasEmpty /\ last.res = "Ok"
    /\ last.stream # <<>>
    /\ \A k \in StreamKeys(last.stream) : ~hist[k].collided
    /\ Cardinality(DOMAIN db) > Len(last.stream)

\* C10: when insert_into_database finds the key and the old or the new
\* bytes are no bitmap, the call returns IndexingMergingKeys and leaves the
\* store as it was.
C10_FailedMergeKeepsStore ==
    [][(/\ last'.op = "insert"
        /\ last'.key \in DOMAIN db
        /\ (~Decode(db[last'.key]).ok \/ ~Decode(last'.val).ok))
          => (last'.res = "IndexingMergingKeys" /\ db' = db)]_vars

C10_Witness ==
    /\ last.op = "insert" /\ last.res = "IndexingMergingKeys"
    /\ last.old # {}
    /\ db[last.key] = The(last.old)
    /\ Cardinality(DOMAIN db) >= 2

\* C13: in the slow path (destination not empty) a stream key that is
\* already in the destination ends up holding exactly the stream's value,
\* not its union with the prior value, and the call reports no error.
C13_SlowPathOverwrites ==
    [][(last'.op = "bulk" /\ ~is_empty(db))
          => (/\ last'.res = "Ok"
              /\ \A i \in 1..Len(last'.stream) :
                    last'.stream[i].k \in DOMAIN db
                       => db'[last'.stream[i].k] = last'.stream[i].v)]_vars

C13_Witness ==
    /\ last.op = "bulk" /\ ~last.wasEmpty /\ last.res = "Ok"
    /\ \E i \in 1..Len(last.stream) :
          LET k == last.stream[i].k
          IN /\ hist[k].collided /\ ~hist[k].corrupt
             /\ db[k] = last.stream[i].v
             /\ db[k] # Encode(hist[k].docs)

\* C14: insert_into_database(new_key, new_value) leaves every entry other
\* than the one at new_key as it was; when no stored key equals new_key,
\* also when a longer stored key starts with new_key, new_key becomes a
\* fresh entry holding new_value.
C14_PointMutation ==
    [][last'.op = "insert"
          => (/\ DOMAIN db' \subseteq (DOMAIN db) \cup {last'.key}
              /\ \A k \in (DOMAIN db) \ {last'.key} :
                    k \in DOMAIN db' /\ db'[k] = db[k]
              /\ last'.key \notin DOMAIN db
                    => (/\ last'.res = "Ok"
                        /\ last'.key \in DOMAIN db'
                        /\ db'[last'.key] = last'.val))]_vars

C14_Witness ==
    /\ last.op = "insert" /\ last.res = "Ok"
    /\ last.key = <<1>> /\ last.old = {}
    /\ <<1, 1>> \in DOMAIN db
    /\ db[<<1>>] = last.val
    /\ db[<<1, 1>>] # last.val
    /\ Decode(db[<<1, 1>>]).ok

(***************************************************************************)
(* Claims about the builder's setters (SpecBuilder).                       *)
(***************************************************************************)

\* C5: max_proximity(v) leaves v when v <= 7 and 7 when v > 7, so the
\* configured max_proximity is lower than or equal to 7 after any setter.
C5_ClampsToSeven ==
    /\ lastSet.op = "max_proximity"
          => builder.max_proximity = Min2(lastSet.value, ProximityBound)
    /\ builder.max_proximity <= ProximityBound

(***************************************************************************)
(* Claims about the Initial criterion (SpecInitial).                       *)
(***************************************************************************)
Failed(s) == \E i \in 1..Len(log[s]) : ~log[s][i].ok

FirstAnswer(s) == The(rets[s][1].answer)

\* C2 as stated: whatever the configuration, the first call to next
\* returns Some(CriterionResult) and every later call returns None.
C2_SomeThenNone ==
    \A s \in Stages :
        /\ Len(rets[s]) >= 1 => rets[s][1].kind = "Some"
        /\ \A i \in 2..Len(rets[s]) : rets[s][i].kind = "None"

\* C2, amended: the first call to next returns Some(CriterionResult), or
\* the error of the resolver or of the distinct iteration when one of them
\* failed; every later call returns None.
C2_SingleFire ==
    \A s \in Stages :
        /\ Len(rets[s]) >= 1 =>
              /\ rets[s][1].kind = (IF Failed(s) THEN "Err" ELSE "Some")
              /\ rets[s][1].kind = "Some" => rets[s][1].answer # {}
        /\ \A i \in 2..Len(rets[s]) : rets[s][i] = RetNone

C2_Witness ==
    /\ Len(rets[1]) = MaxNext
    /\ rets[1][1].kind = "Some"
    /\ given[1].exhaustive_number_hits /\ given[1].query_tree # {}
    /\ given[1].distinct # {} /\ given[1].filtered_candidates # {}
    /\ rets[1][MaxNext] = RetNone

\* C3: in exhaustive mode with a query tree, the answer's candidates are
\* the resolved documents intersected with filtered_candidates when there
\* are some; bucket_candidates is a subset of candidates, and equals it
\* when no distinct was supplied.
C3_ExhaustiveCandidates ==
    \A s \in Stages :
        (/\ given[s].exhaustive_number_hits
         /\ given[s].query_tree # {}
         /\ Len(rets[s]) >= 1
         /\ rets[s][1].kind = "Some")
        => LET a == FirstAnswer(s)
               resolved == resolve(The(given[s].query_tree))
               expected == IF given[s].filtered_candidates = {} THEN resolved
                           ELSE resolved \cap The(given[s].filtered_candidates)
           IN /\ a.candidates = {expected}
              /\ a.bucket_candidates # {}
              /\ The(a.bucket_candidates) \subseteq expected
              /\ given[s].distinct = {} => a.bucket_candidates = {expected}

C3_Witness ==
    /\ given[1].exhaustive_number_hits /\ given[1].query_tree # {}
    /\ given[1].distinct # {}
    /\ given[1].filtered_candidates # {}
    /\ Len(rets[1]) >= 1 /\ rets[1][1].kind = "Some"
    /\ LET a == FirstAnswer(1)
       IN /\ The(a.candidates) # resolve(The(given[1].query_tree))
          /\ Cardinality(The(a.candidates)) >= 2
          /\ The(a.bucket_candidates) # The(a.candidates)
          /\ The(a.bucket_candidates) # {}

\* C8: when exhaustive_number_hits is false or there is no query tree, the
\* first call returns the answer as Initial::new built it, candidates and
\* bucket_candidates unset, and invokes neither the resolver nor distinct.
C8_LazyAnswerUnmodified ==
    \A s \in Stages :
        ((~given[s].exhaustive_number_hits \/ given[s].query_tree = {})
            /\ Len(rets[s]) >= 1)
        => /\ rets[s][1] = RetSome([query_tree |-> given[s].query_tree,
                                    candidates |-> {},
                                    filtered_candidates |-> given[s].filtered_candidates,
                                    bucket_candidates |-> {}])
           /\ log[s] = <<>>
           /\ wdcache[s] = {}

C8_Witness ==
    /\ ~given[1].exhaustive_number_hits
    /\ given[1].query_tree # {} /\ given[1].distinct # {}
    /\ given[1].filtered_candidates # {}
    /\ Len(rets[1]) >= 1
    /\ rets[1][1].kind = "Some"
    /\ log[1] = <<>>

\* C9: when the resolver fails, or an item of the distinct iteration is an
\* error, next returns that error and no CriterionResult is returned.
C9_ErrorAndNoAnswer ==
    \A s \in Stages :
        \A i \in 1..Len(log[s]) :
            ~log[s][i].ok
            => /\ rets[s][1].kind = "Err"
               /\ rets[s][1].err = (IF log[s][i].call = "distinct"
                                    THEN "distinct" ELSE "resolve")
               /\ \A j \in 1..Len(rets[s]) : rets[s][j].answer = {}

C9_Witness ==
    /\ Len(log[1]) = 2
    /\ log[1][2].call = "distinct" /\ ~log[1][2].ok
    /\ log[1][2].yielded # {}
    /\ Len(rets[1]) >= 2
    /\ rets[1][1] = RetErr("distinct")

\* C11: with a distinct supplied, bucket_candidates holds at most one
\* document per value of the distinct attribute found in candidates, and
\* every such value has a document in bucket_candidates.
C11_DistinctExhaustive ==
    \A s \in Stages :
        (/\ given[s].exhaustive_number_hits
         /\ given[s].query_tree # {}
         /\ given[s].distinct # {}
         /\ Len(rets[s]) >= 1
         /\ rets[s][1].kind = "Some")
        => LET candidates == The(FirstAnswer(s).candidates)
               bucket == The(FirstAnswer(s).bucket_candidates)
           IN /\ \A a \in bucket, b \in bucket : attr(a) = attr(b) => a = b
              /\ \A c \in candidates : \E b \in bucket : attr(b) = attr(c)
              /\ \A b \in bucket : \E c \in candidates : attr(b) = attr(c)

C11_Witness ==
    /\ given[1].exhaustive_number_hits /\ given[1].query_tree # {}
    /\ given[1].distinct # {}
    /\ Len(rets[1]) >= 1 /\ rets[1][1].kind = "Some"
    /\ Cardinality(The(FirstAnswer(1).candidates)) >= 3
    /\ Cardinality(The(FirstAnswer(1).bucket_candidates)) = 2

\* C15: when the first call to next fails, the stage has no answer left:
\* every later call returns None and invokes neither the resolver nor the
\* distinct again.
C15_ExhaustedAfterError ==
    \A s \in Stages :
        (Len(rets[s]) >= 1 /\ rets[s][1].kind = "Err")
        => /\ stage[s].answer = {}
           /\ \A i \in 2..Len(rets[s]) : rets[s][i] = RetNone
           /\ Cardinality({i \in 1..Len(log[s]) :
                              log[s][i].call = "resolve_query_tree"}) = 1
           /\ Cardinality({i \in 1..Len(log[s]) : log[s][i].call = "distinct"}) <= 1

C15_Witness ==
    /\ Len(rets[1]) = MaxNext
    /\ rets[1][1] = RetErr("resolve")
    /\ rets[1][MaxNext] = RetNone
    /\ Len(log[1]) = 1

\* C16: in exhaustive mode with a distinct, next resolves, then filters,
\* then runs the distinct: once, only after a successful resolution, on
\* the filtered candidates with nothing excluded, to its end; the ids it
\* yielded are bucket_candidates.
C16_ResolveFilterDistinct ==
    \A s \in Stages :
        (/\ given[s].exhaustive_number_hits
         /\ given[s].query_tree # {}
         /\ given[s].distinct # {}
         /\ Len(rets[s]) >= 1)
        => LET resolved == resolve(The(given[s].query_tree))
               filtered == IF given[s].filtered_candidates = {} THEN resolved
                           ELSE resolved \cap The(given[s].filtered_candidates)
           IN /\ Len(log[s]) >= 1
              /\ log[s][1] = ResolveCall(The(given[s].query_tree), log[s][1].ok)
              /\ Len(log[s]) = (IF log[s][1].ok THEN 2 ELSE 1)
              /\ Len(log[s]) = 2
                    => /\ log[s][2].call = "distinct"
                       /\ log[s][2].candidates = filtered
                       /\ log[s][2].excluded = {}
              /\ rets[s][1].kind = "Some"
                    => /\ Len(log[s]) = 2
                       /\ log[s][2].yielded = Range(distinct_ids(filtered, {}))
                       /\ FirstAnswer(s).bucket_candidates = {log[s][2].yielded}

C16_Witness ==
    /\ given[1].exhaustive_number_hits /\ given[1].query_tree # {}
    /\ given[1].distinct # {} /\ given[1].filtered_candidates # {}
    /\ Len(rets[1]) >= 1 /\ rets[1][1].kind = "Some"
    /\ Len(log[1]) = 2
    /\ log[1][2].candidates # resolve(The(given[1].query_tree))
    /\ Cardinality(log[1][2].yielded) >= 2
    /\ FirstAnswer(1).bucket_candidates = {log[1][2].yielded}

\* C18: the answer of the first successful next carries the query_tree and
\* the filtered_candidates that Initial::new was given.
C18_TreeAndFilterKept ==
    \A s \in Stages :
        (Len(rets[s]) >= 1 /\ rets[s][1].kind = "Some")
        => /\ FirstAnswer(s).query_tree = given[s].query_tree
           /\ FirstAnswer(s).filtered_candidates = given[s].filtered_candidates

C18_Witness ==
    /\ given[1].exhaustive_number_hits
    /\ given[1].query_tree # {} /\ given[1].filtered_candidates # {}
    /\ Len(rets[1]) >= 1 /\ rets[1][1].kind = "Some"
    /\ FirstAnswer(1).query_tree = given[1].query_tree
    /\ FirstAnswer(1).filtered_candidates = given[1].filtered_candidates
    /\ The(FirstAnswer(1).candidates) # The(given[1].filtered_candidates)
    /\ The(FirstAnswer(1).candidates) # {}

(***************************************************************************)
(* Claims about execute (SpecBuilder).                                     *)
(***************************************************************************)

\* C12: execute invokes the word->prefix derivation first and the
\* prefix->word derivation second, the second only after the first has
\* returned Ok; when the first fails execute returns its error without
\* invoking the second; execute returns Ok only when both succeeded.
C12_DerivationsInSequence ==
    execRes # "none"
    => /\ Len(derivs) \in 1..2
       /\ derivs[1].fn = "index_word_prefix_database"
       /\ Len(derivs) = 2 <=> derivs[1].ok
       /\ Len(derivs) = 2 => derivs[2].fn = "index_prefix_word_database"
       /\ ~derivs[1].ok => execRes = "Err(index_word_prefix_database)"
       /\ (Len(derivs) = 2 /\ ~derivs[2].ok)
             => execRes = "Err(index_prefix_word_database)"
       /\ execRes = "Ok" <=> (Len(derivs) = 2 /\ derivs[1].ok /\ derivs[2].ok)

C12_Witness ==
    /\ execRes = "Err(index_word_prefix_database)"
    /\ Len(derivs) = 1
    /\ ~derivs[1].ok
    /\ lastSet.op # "none"

\* C17: a new builder has max_proximity = 4 and max_prefix_length = 2;
\* max_prefix_length(v) stores v and leaves max_proximity alone,
\* max_proximity(v) leaves max_prefix_length alone; execute hands both
\* derivations the max_proximity, max_prefix_length and compression
\* settings the builder held when it was called.
C17_SettingsThreaded ==
    /\ (builder.max_proximity = 4 /\ builder.max_prefix_length = 2)
    /\ [][/\ lastSet' # lastSet /\ lastSet'.op = "max_prefix_length"
              => /\ builder'.max_prefix_length = lastSet'.value
                 /\ builder'.max_proximity = builder.max_proximity
          /\ lastSet'.op = "max_proximity" /\ builder' # builder
              => builder'.max_prefix_length = builder.max_prefix_length
          /\ (lastSet' # lastSet \/ builder' # builder)
              => /\ builder'.chunk_compression_type = builder.chunk_compression_type
                 /\ builder'.chunk_compression_level = builder.chunk_compression_level
          /\ execRes' # execRes
              => /\ builder' = builder
                 /\ \A i \in 1..Len(derivs') :
                       /\ derivs'[i].max_proximity = builder.max_proximity
                       /\ derivs'[i].max_prefix_length = builder.max_prefix_length
                       /\ derivs'[i].chunk_compression_type
                             = builder.chunk_compression_type
                       /\ derivs'[i].chunk_compression_level
                             = builder.chunk_compression_level]_vars

C17_Witness ==
    /\ execRes = "Ok" /\ Len(derivs) = 2
    /\ builder.max_proximity = 200 /\ builder.max_prefix_length = 3
    /\ builder.chunk_compression_type = "Zstd"
    /\ builder.chunk_compression_level = {3}
    /\ \A i \in 1..2 :
          /\ derivs[i].max_proximity = 200
          /\ derivs[i].max_prefix_length = 3
          /\ derivs[i].chunk_compression_level = {3}

====
